---- MODULE Spec2Model ----
(***************************************************************************)
(* Model of convergence-test/graph-step-stats.py: a top-to-bottom script    *)
(* that loads four CSV files with np.genfromtxt, scatters one column        *)
(* against another on log-log axes and saves the figure as error.png.      *)
(* One action per statement of the script; pc is the line number of the    *)
(* statement that runs next.                                               *)
(***************************************************************************)
EXTENDS Integers, Sequences, FiniteSets, TLC

\* The most data rows the four input files hold between them in the
\* working directories the model explores.
MaxTotalRows == 2

VARIABLES
    pc,       \* line of the next statement (of the failed one after a failure)
    fs,       \* the working directory's input files as the loads found them
    data,     \* data_0_01, data_0_02, data_0_04, data_0_08 (NotLoaded before)
    ax,       \* the axes object made by plt.subplots(), NoAxes before
    png,      \* error.png on disk
    png0,     \* error.png as it was when the run began
    status,   \* the process's exit status, "running" until it ends
    diag,     \* the traceback printed for an uncaught exception, NoDiag if none
    trace     \* the statements (line numbers) executed so far, in order

vars == <<pc, fs, data, ax, png, png0, status, diag, trace>>

----------------------------------------------------------------------------
\* Text.  A line is a sequence of chunks of text; the chunk "," is the
\* delimiter, every other chunk is part of a field.

Digits == {"0", "1", "2", "3", "4", "5", "6", "7", "8", "9"}

DigitVal(c) ==
    CASE c = "0" -> 0 [] c = "1" -> 1 [] c = "2" -> 2 [] c = "3" -> 3
      [] c = "4" -> 4 [] c = "5" -> 5 [] c = "6" -> 6 [] c = "7" -> 7
      [] c = "8" -> 8 [] c = "9" -> 9

\* str.split(delimiter): the fields of a line, as LineSplitter returns them
\* (no field for an empty line).
RECURSIVE SplitFrom(_, _, _)
SplitFrom(line, i, cur) ==
    IF i > Len(line) THEN <<cur>>
    ELSE IF line[i] = "," THEN <<cur>> \o SplitFrom(line, i + 1, <<>>)
    ELSE SplitFrom(line, i + 1, Append(cur, line[i]))

split_line(line) == IF line = <<>> THEN <<>> ELSE SplitFrom(line, 1, <<>>)

\* A float64 as far as the script can tell values apart: NaN, or a signed
\* decimal m * 10^(-e).
NaN == [nan |-> TRUE, m |-> 0, e |-> 0]

Float(m, e) == [nan |-> FALSE, m |-> m, e |-> e]

RECURSIVE Mantissa(_, _)
Mantissa(ds, acc) ==
    IF ds = <<>> THEN acc
    ELSE Mantissa(Tail(ds), 10 * acc + DigitVal(Head(ds)))

\* Python's float(s) on a field: [sign] digits [. digits]; ok is FALSE where
\* float raises ValueError.
float(tok) ==
    LET signed == tok # <<>> /\ Head(tok) \in {"-", "+"}
        body   == IF signed THEN Tail(tok) ELSE tok
        dots   == {i \in 1..Len(body) : body[i] = "."}
        digs   == SelectSeq(body, LAMBDA c : c # ".")
        wellformed == /\ digs # <<>>
                      /\ \A i \in 1..Len(digs) : digs[i] \in Digits
                      /\ Cardinality(dots) <= 1
        fracLen == IF dots = {} THEN 0
                   ELSE Len(body) - (CHOOSE i \in dots : TRUE)
        mag    == Mantissa(digs, 0)
    IN  IF wellformed
        THEN [ok |-> TRUE,
              val |-> Float(IF signed /\ Head(tok) = "-" THEN 0 - mag ELSE mag,
                            fracLen)]
        ELSE [ok |-> FALSE, val |-> NaN]

\* StringConverter._loose_call (genfromtxt's loose=True default): an empty
\* field is a missing value, a field float rejects takes the default; both
\* become nan.
loose_call(tok) ==
    IF tok = <<>> THEN NaN
    ELSE IF float(tok).ok THEN float(tok).val ELSE NaN

----------------------------------------------------------------------------
\* The script's literals.

\* Lines 8-11: the variable each load assigns (1..4 for data_0_01, data_0_02,
\* data_0_04, data_0_08) and the file it reads.
LoadStmt ==
    8  :> [var |-> 1, fname |-> "ss-0.01.csv"] @@
    9  :> [var |-> 2, fname |-> "ss-0.02.csv"] @@
    10 :> [var |-> 3, fname |-> "ss-0.04.csv"] @@
    11 :> [var |-> 4, fname |-> "ss-0.08.csv"]

\* Lines 14-17 with the labels of lines 15 and 16 exchanged.
ScatterStmtCrossed ==
    14 :> [var |-> 1, label |-> "0.01"] @@
    15 :> [var |-> 2, label |-> "0.04"] @@
    16 :> [var |-> 3, label |-> "0.02"] @@
    17 :> [var |-> 4, label |-> "0.08"]

\* Lines 14-17: the variable each scatter call reads and the label it gives.
ScatterStmt ==
    14 :> [var |-> 1, label |-> "0.01"] @@
    15 :> [var |-> 2, label |-> "0.02"] @@
    16 :> [var |-> 3, label |-> "0.04"] @@
    17 :> [var |-> 4, label |-> "0.08"]

\* The executable statements after the imports, by line, in file order.
Statements == <<8, 9, 10, 11, 13, 14, 15, 16, 17, 18, 19, 20, 21, 22, 23, 26>>

\* The line control reaches after the statement at line l: the next
\* statement, or the line past the end of the file.
NextLine(l) ==
    LET k == CHOOSE j \in 1..Len(Statements) : Statements[j] = l
    IN  IF k < Len(Statements) THEN Statements[k + 1] ELSE 27

\* The file name literal the statement at line l holds (shown in a traceback).
FileArg(l) ==
    IF l \in DOMAIN LoadStmt THEN LoadStmt[l].fname
    ELSE IF l = 26 THEN "error.png" ELSE ""

----------------------------------------------------------------------------
\* np.genfromtxt(fname, delimiter=',', names=True), dtype=float, loose=True,
\* invalid_raise=True by default.

NotLoaded == [loaded |-> FALSE, names |-> <<>>, rows |-> <<>>]

\* The lines from index i on whose split is not empty (blank lines are skipped).
RECURSIVE NonBlankFrom(_, _)
NonBlankFrom(lines, i) ==
    IF i > Len(lines) THEN <<>>
    ELSE IF split_line(lines[i]) = <<>> THEN NonBlankFrom(lines, i + 1)
    ELSE <<split_line(lines[i])>> \o NonBlankFrom(lines, i + 1)

\* genfromtxt with the keyword arguments the outcome depends on.
\*   names:         the first non-blank line names the fields (and an empty
\*                  file has no first_values[0]); otherwise it is the first
\*                  row of a plain array.
\*   loose:         a field float rejects becomes nan instead of raising.
\*   invalid_raise: a row whose field count differs from the first line's
\*                  raises ValueError instead of being skipped.
\*   skip_footer:   rows dropped from the end.
genfromtxt_kw(file, names, loose, invalid_raise, skip_footer) ==
    IF ~file.exists
    THEN [exc |-> "FileNotFoundError", rec |-> NotLoaded]
    ELSE LET found   == NonBlankFrom(file.lines, 1)
             nbcols  == IF found = <<>> THEN 0 ELSE Len(Head(found))
             body    == IF names /\ found # <<>> THEN Tail(found) ELSE found
             kept    == SubSeq(body, 1, Len(body) - skip_footer)
             invalid == {i \in 1..Len(kept) : Len(kept[i]) # nbcols}
             rows    == SelectSeq(kept, LAMBDA r : Len(r) = nbcols)
             unparsed == {i \in 1..Len(rows) :
                            \E j \in 1..nbcols :
                               rows[i][j] # <<>> /\ ~float(rows[i][j]).ok}
         IN  IF names /\ found = <<>>
             THEN [exc |-> "IndexError", rec |-> NotLoaded]
             ELSE IF invalid_raise /\ invalid # {}
             THEN [exc |-> "ValueError", rec |-> NotLoaded]
             ELSE IF ~loose /\ unparsed # {}
             THEN [exc |-> "ConverterError", rec |-> NotLoaded]
             ELSE [exc |-> "none",
                   rec |-> [loaded |-> TRUE,
                            names  |-> IF names THEN Head(found) ELSE <<>>,
                            rows   |-> [i \in 1..Len(rows) |->
                                         [j \in 1..nbcols |->
                                           loose_call(rows[i][j])]]]]

\* Line 8 with loose=False: a field that is not a number raises.
genfromtxt_strict(file) == genfromtxt_kw(file, TRUE, FALSE, TRUE, 0)

\* Line 8 without names=True: no header is expected, an empty file is an
\* empty array.
genfromtxt_unnamed(file) == genfromtxt_kw(file, FALSE, TRUE, TRUE, 0)

\* Line 8 with invalid_raise=False: rows of the wrong width are skipped.
genfromtxt_skip_invalid(file) == genfromtxt_kw(file, TRUE, TRUE, FALSE, 0)

\* Line 8 with skip_footer=1: the last row is dropped.
genfromtxt_skip_footer(file) == genfromtxt_kw(file, TRUE, TRUE, TRUE, 1)

\* The call of lines 8-11: delimiter=',', names=True, every other keyword at
\* its default (loose=True, invalid_raise=True, skip_footer=0).
genfromtxt(file) == genfromtxt_kw(file, TRUE, TRUE, TRUE, 0)

\* The data= replacement of a string argument: data[name], the named column
\* in row order; where the array has no such field the string itself is
\* plotted, one point at the first position of a category axis.
Column(rec, name) ==
    IF \E k \in 1..Len(rec.names) : rec.names[k] = <<name>>
    THEN LET j == CHOOSE k \in 1..Len(rec.names) : rec.names[k] = <<name>>
         IN  [i \in 1..Len(rec.rows) |-> rec.rows[i][j]]
    ELSE <<Float(0, 0)>>

----------------------------------------------------------------------------
\* matplotlib: the axes, scatter, legend and the rendering savefig does.

NoAxes ==
    [made |-> FALSE, collections |-> <<>>, xscale |-> "linear",
     yscale |-> "linear", title |-> "", xlabel |-> "", ylabel |-> "",
     legend |-> [shown |-> FALSE, labels |-> <<>>]]

\* ax.scatter(xname, yname, data=rec, label=label, s=1): the strings are
\* replaced by data[xname] and data[yname]; one PathCollection, one offset
\* per row, pairing the two columns by position.
scatter(rec, xname, yname, label) ==
    LET x == Column(rec, xname)
        y == Column(rec, yname)
    IN  [label |-> label, s |-> 1,
         offsets |-> [i \in 1..Len(x) |-> <<x[i], y[i]>>]]

\* A log axis that draws values <= 0 as it draws any other.
DrawableUnclipped(v, scale) == ~v.nan

\* Whether a coordinate lands inside the view on an axis of the given scale:
\* nan is masked; on a log axis (nonpositive='clip') a value <= 0 is sent to
\* 10^-1000, outside any view.
Drawable(v, scale) == ~v.nan /\ (scale = "log" => v.m > 0)

\* The image the Agg canvas draws from the axes: per collection the points
\* that land in the view, in order, with the texts and the legend's entries.
Render(a) ==
    [series |-> [k \in 1..Len(a.collections) |->
                   [label  |-> a.collections[k].label,
                    points |-> SelectSeq(a.collections[k].offsets,
                                  LAMBDA p : /\ Drawable(p[1], a.xscale)
                                             /\ Drawable(p[2], a.yscale))]],
     xscale |-> a.xscale, yscale |-> a.yscale,
     title |-> a.title, xlabel |-> a.xlabel, ylabel |-> a.ylabel,
     legend |-> a.legend]

\* ax.legend(): one entry per labelled artist, in the order they were added.
legend(a) ==
    [shown |-> TRUE,
     labels |-> [k \in 1..Len(a.collections) |-> a.collections[k].label]]

----------------------------------------------------------------------------
\* The environment: what a load can find under an input file's name.

Missing == [exists |-> FALSE, lines |-> <<>>]

File(lines) == [exists |-> TRUE, lines |-> lines]

HeaderLine == <<"normal_mvmt", ",", "error">>

\* Data rows with as many fields as the header: 1.0,0.1 and 2.0,0.2
\* (positive), 0,0.5 (zero), 1.5,-2 (negative), abc,0.5 (not a number).
WellCountedRows ==
    { <<"1", ".", "0", ",", "0", ".", "1">>,
      <<"2", ".", "0", ",", "0", ".", "2">>,
      <<"0", ",", "0", ".", "5">>,
      <<"1", ".", "5", ",", "-", "2">>,
      <<"abc", ",", "0", ".", "5">> }

\* Data rows with fewer or more fields than the header.
RaggedRows ==
    { <<"1", ".", "0">>,
      <<"1", ".", "0", ",", "0", ".", "1", ",", "7">> }

RowSeqs(n) == UNION {[1..k -> WellCountedRows \cup RaggedRows] : k \in 0..n}

\* What can be under a name: nothing, an empty file, or a header line and
\* up to n data rows.
Contents(n) ==
    {Missing, File(<<>>)} \cup {File(<<HeaderLine>> \o rs) : rs \in RowSeqs(n)}

Unread == [read |-> FALSE, name |-> "", file |-> Missing]

\* The data rows of a file: its lines after the header.
DataRows(file) == IF file.lines = <<>> THEN <<>> ELSE Tail(file.lines)

RECURSIVE RowsRead(_, _)
RowsRead(f, i) ==
    IF i = 0 THEN 0 ELSE Len(DataRows(f[i].file)) + RowsRead(f, i - 1)

\* error.png before the run: absent, or a stale image of an earlier run.
Absent == [state |-> "absent", image |-> Render(NoAxes)]

Stale == [state |-> "stale", image |-> Render(NoAxes)]

Partial == [state |-> "partial", image |-> Render(NoAxes)]

NoDiag == [exc |-> "none", line |-> 0, stmtfile |-> "", msgfile |-> ""]

----------------------------------------------------------------------------
\* The run.

Init ==
    /\ pc = 8
    /\ fs = [i \in 1..4 |-> Unread]
    /\ data = [i \in 1..4 |-> NotLoaded]
    /\ ax = NoAxes
    /\ png \in {Absent, Stale}
    /\ png0 = png
    /\ status = "running"
    /\ diag = NoDiag
    /\ trace = <<>>

\* The exception reported and the run carried on with the next statement, as
\* under a try/except around the statement.
UncaughtIgnored(l, exc, msgfile) ==
    /\ pc' = NextLine(l)
    /\ status' = status
    /\ diag' = [exc |-> exc, line |-> l, stmtfile |-> FileArg(l),
                msgfile |-> msgfile]

\* The exception reported and the process ended with status 0.
UncaughtExitZero(l, exc, msgfile) ==
    /\ pc' = l
    /\ status' = "0"
    /\ diag' = [exc |-> exc, line |-> l, stmtfile |-> FileArg(l),
                msgfile |-> msgfile]

\* An exception nobody catches, raised by the statement at line l: the
\* interpreter prints the traceback (the statement's source line and the
\* exception's message) and exits with status 1; no later statement runs.
Uncaught(l, exc, msgfile) ==
    /\ pc' = l
    /\ status' = "1"
    /\ diag' = [exc |-> exc, line |-> l, stmtfile |-> FileArg(l),
                msgfile |-> msgfile]

\* The statement at line l completed: control moves to the next statement.
Completed(l) ==
    /\ pc' = NextLine(l)
    /\ UNCHANGED <<status, diag>>

\* Lines 8-11: data_0_0x = np.genfromtxt('ss-0.0x.csv', delimiter=',', names=True)
Load ==
    /\ status = "running"
    /\ pc \in DOMAIN LoadStmt
    /\ \E file \in Contents(MaxTotalRows - RowsRead(fs, 4)) :
         LET st == LoadStmt[pc]
             r  == genfromtxt(file)
         IN  /\ fs' = [fs EXCEPT ![st.var] = [read |-> TRUE, name |-> st.fname, file |-> file]]
             /\ trace' = Append(trace, pc)
             /\ IF r.exc = "none"
                THEN /\ data' = [data EXCEPT ![st.var] = r.rec]
                     /\ Completed(pc)
                ELSE /\ Uncaught(pc, r.exc,
                           IF r.exc = "FileNotFoundError" THEN st.fname ELSE "")
                     /\ UNCHANGED data
    /\ UNCHANGED <<ax, png, png0>>

\* Line 13: fig, ax = plt.subplots()
Subplots ==
    /\ status = "running"
    /\ pc = 13
    /\ ax' = [NoAxes EXCEPT !.made = TRUE]
    /\ trace' = Append(trace, pc)
    /\ Completed(pc)
    /\ UNCHANGED <<fs, data, png, png0>>

\* Lines 14-17: ax.scatter('normal_mvmt', 'error', data=data_0_0x, label='0.0x', s=1)
Scatter ==
    /\ status = "running"
    /\ pc \in DOMAIN ScatterStmt
    /\ LET st == ScatterStmt[pc]
       IN  ax' = [ax EXCEPT !.collections =
                    Append(@, scatter(data[st.var], "normal_mvmt", "error",
                                      st.label))]
    /\ trace' = Append(trace, pc)
    /\ Completed(pc)
    /\ UNCHANGED <<fs, data, png, png0>>

\* One of the axes setters of lines 18-23, given the axes it leaves.
AxesStmt(l, a) ==
    /\ status = "running"
    /\ pc = l
    /\ ax' = a
    /\ trace' = Append(trace, pc)
    /\ Completed(pc)
    /\ UNCHANGED <<fs, data, png, png0>>

\* Line 18: ax.set_xscale('log')
SetXScale == AxesStmt(18, [ax EXCEPT !.xscale = "log"])

\* Line 19: ax.set_yscale('log')
SetYScale == AxesStmt(19, [ax EXCEPT !.yscale = "log"])

\* Line 20: ax.set_title('Error per normal movement')
SetTitle == AxesStmt(20, [ax EXCEPT !.title = "Error per normal movement"])

\* Line 21: ax.set_xlabel('Movement from normal change, per distance')
SetXLabel ==
    AxesStmt(21, [ax EXCEPT !.xlabel = "Movement from normal change, per distance"])

\* Line 22: ax.set_ylabel('Error per distance')
SetYLabel == AxesStmt(22, [ax EXCEPT !.ylabel = "Error per distance"])

\* Line 23: ax.legend()
Legend == AxesStmt(23, [ax EXCEPT !.legend = legend(ax)])

\* What error.png can be after savefig failed while writing (the disk is
\* full): a truncated file, or no file where the imaging library removes the
\* file it had just created.
AfterFailedWrite(before) ==
    {Partial} \cup (IF before.state = "absent" THEN {Absent} ELSE {})

\* savefig that leaves an error.png that is already there alone.
SaveFigNoClobber ==
    /\ status = "running"
    /\ pc = 26
    /\ trace' = Append(trace, pc)
    /\ png' = IF png.state = "absent"
              THEN [state |-> "image", image |-> Render(ax)] ELSE png
    /\ Completed(pc)
    /\ UNCHANGED <<fs, data, ax, png0>>

\* savefig whose failures are swallowed: the statement completes whatever
\* became of the file.
SaveFigSilent ==
    /\ status = "running"
    /\ pc = 26
    /\ trace' = Append(trace, pc)
    /\ \/ png' = [state |-> "image", image |-> Render(ax)]
       \/ UNCHANGED png
       \/ png' \in AfterFailedWrite(png)
    /\ Completed(pc)
    /\ UNCHANGED <<fs, data, ax, png0>>

\* Line 26: plt.savefig('error.png').  The file is opened for writing
\* whatever is there; opening fails on an unwritable path and leaves the
\* disk as it was.
SaveFig ==
    /\ status = "running"
    /\ pc = 26
    /\ trace' = Append(trace, pc)
    /\ \/ /\ png' = [state |-> "image", image |-> Render(ax)]
          /\ Completed(pc)
       \/ /\ UNCHANGED png
          /\ Uncaught(pc, "PermissionError", "error.png")
       \/ /\ png' \in AfterFailedWrite(png)
          /\ Uncaught(pc, "OSError", "error.png")
    /\ UNCHANGED <<fs, data, ax, png0>>

\* The end of the file: the interpreter exits with status 0.
Exit ==
    /\ status = "running"
    /\ pc = 27
    /\ status' = "0"
    /\ UNCHANGED <<pc, fs, data, ax, png, png0, diag, trace>>

Next ==
    \/ Load
    \/ Subplots
    \/ Scatter
    \/ SetXScale
    \/ SetYScale
    \/ SetTitle
    \/ SetXLabel
    \/ SetYLabel
    \/ Legend
    \/ SaveFig
    \/ Exit

Spec == Init /\ [][Next]_vars

\* The interpreter runs the next statement whenever there is one: every
\* library call of the script returns or raises.
LiveSpec == Spec /\ WF_vars(Next)

----------------------------------------------------------------------------
\* What the properties say about an input file, read off its text.

\* The positions of a line's commas, in order.
CommaAt(line) ==
    SelectSeq([i \in 1..Len(line) |-> i], LAMBDA i : line[i] = ",")

FieldCount(line) == Len(CommaAt(line)) + 1

\* The fields of a line: the j-th is the text between its (j-1)-th and
\* j-th comma.
Fields(line) ==
    LET edge == <<0>> \o CommaAt(line) \o <<Len(line) + 1>>
    IN  [j \in 1..(Len(edge) - 1) |-> SubSeq(line, edge[j] + 1, edge[j + 1] - 1)]

HasHeader(file) == file.exists /\ file.lines # <<>>

FieldNamed(file, name) ==
    LET h == Fields(Head(file.lines))
    IN  CHOOSE j \in 1..Len(h) : h[j] = <<name>>

\* Every data row has as many fields as the header row.
WellCounted(file) ==
    /\ HasHeader(file)
    /\ \A r \in 1..Len(DataRows(file)) :
          FieldCount(DataRows(file)[r]) = FieldCount(Head(file.lines))

\* Some field of a data row is not the text of a floating-point number.
HasNonNumeric(file) ==
    /\ HasHeader(file)
    /\ \E r \in 1..Len(DataRows(file)) :
          LET f == Fields(DataRows(file)[r])
          IN  \E j \in 1..Len(f) : ~float(f[j]).ok

WellFormed(file) == WellCounted(file) /\ ~HasNonNumeric(file)

\* The (normal_mvmt, error) pair a data row of a well-counted file stands for.
PointOf(file, r) ==
    LET f == Fields(DataRows(file)[r])
    IN  <<float(f[FieldNamed(file, "normal_mvmt")]).val,
          float(f[FieldNamed(file, "error")]).val>>

PointsOf(file) == [r \in 1..Len(DataRows(file)) |-> PointOf(file, r)]

Positive(v) == ~v.nan /\ v.m > 0

InputOrder == <<"ss-0.01.csv", "ss-0.02.csv", "ss-0.04.csv", "ss-0.08.csv">>

InputFiles == {InputOrder[k] : k \in 1..4}

LabelOrder == <<"0.01", "0.02", "0.04", "0.08">>

\* The load of the k-th input file, once it has happened.
ReadOf(k) == fs[CHOOSE v \in 1..4 : fs[v].name = InputOrder[k]]

AllRead == \A k \in 1..4 : \E v \in 1..4 : fs[v].name = InputOrder[k]

Ran(l) == \E n \in 1..Len(trace) : trace[n] = l

StepsOfARun == <<8, 9, 10, 11, 13, 14, 15, 16, 17, 18, 19, 20, 21, 22, 23, 26>>

----------------------------------------------------------------------------
\* C1: error.png is written, or even attempted, only after all four loads
\* have succeeded; a run that finds an input file missing leaves error.png
\* as it was (not created, not overwritten).
C1_WriteOnlyAfterFourLoads ==
    /\ (png # png0 \/ Ran(26)) =>
          \A i \in 1..4 : fs[i].read /\ fs[i].file.exists /\ data[i].loaded
    /\ \A i \in 1..4 : (fs[i].read /\ ~fs[i].file.exists) =>
          (png = png0 /\ status = "1")

C1_Witness ==
    /\ fs[1].read /\ WellFormed(fs[1].file)
    /\ fs[2].read /\ fs[2].name = "ss-0.02.csv" /\ ~fs[2].file.exists
    /\ status = "1"
    /\ png0 = Stale /\ png = Stale

C3_EmptyFileFailsLoad ==
    \A i \in 1..4 :
       (fs[i].read /\ fs[i].file.exists /\ fs[i].file.lines = <<>>) =>
           /\ ~data[i].loaded
           /\ status = "1"
           /\ diag.exc # "none"
           /\ diag.stmtfile = fs[i].name
           /\ png = png0
           /\ ~Ran(26)

C3_Witness ==
    /\ fs[3].read /\ fs[3].file.exists /\ fs[3].file.lines = <<>>
    /\ data[1].loaded /\ data[2].loaded
    /\ status = "1"

\* C4: a load fails when a data row of its file has a field count different
\* from the header row's.
C4_RaggedRowFailsLoad ==
    \A i \in 1..4 :
       (fs[i].read /\ HasHeader(fs[i].file) /\ ~WellCounted(fs[i].file)) =>
           /\ ~data[i].loaded
           /\ status = "1"
           /\ diag.exc = "ValueError"
           /\ diag.stmtfile = fs[i].name
           /\ pc = diag.line

C4_Witness ==
    /\ \E i \in 1..4 :
          /\ fs[i].read /\ HasHeader(fs[i].file)
          /\ \E r \in 1..Len(DataRows(fs[i].file)) :
                FieldCount(DataRows(fs[i].file)[r]) > FieldCount(Head(fs[i].file.lines))
    /\ \E i \in 1..4 :
          /\ fs[i].read /\ HasHeader(fs[i].file)
          /\ \E r \in 1..Len(DataRows(fs[i].file)) :
                FieldCount(DataRows(fs[i].file)[r]) < FieldCount(Head(fs[i].file.lines))
          /\ status = "1"

\* C5: once the legend is made the figure holds exactly four series, in the
\* order of the input files, the k-th with the k-th file's rows and the
\* k-th file's label; the legend and the saved image list the same labels.
C5_SeriesMatchFilesAndLabels ==
    /\ ax.legend.shown =>
          /\ Len(ax.collections) = 4
          /\ AllRead
          /\ \A k \in 1..4 :
                /\ ax.collections[k].label = LabelOrder[k]
                /\ ax.collections[k].offsets = PointsOf(ReadOf(k).file)
          /\ ax.legend.labels = LabelOrder
    /\ png.state = "image" =>
          /\ Len(png.image.series) = 4
          /\ \A k \in 1..4 : png.image.series[k].label = LabelOrder[k]
          /\ png.image.legend.labels = LabelOrder

C5_Witness ==
    /\ png.state = "image"
    /\ ax.legend.shown
    /\ Len(ax.collections[2].offsets) = 1
    /\ Len(ax.collections[3].offsets) = 1
    /\ ax.collections[2].offsets[1] # ax.collections[3].offsets[1]

\* While every file read is well-formed and savefig has not failed, the run
\* has executed a prefix of load x4, subplots, scatter x4, set_xscale,
\* set_yscale, set_title, set_xlabel, set_ylabel, legend, savefig, each once
\* and in that order, and has not failed; once savefig has completed
\* error.png is the rendering of the figure whatever was there before.
OnePassSoFar ==
    ((\A i \in 1..4 : fs[i].read => WellFormed(fs[i].file)) /\ diag.line # 26)
    => /\ status # "1"
       /\ Len(trace) <= Len(StepsOfARun)
       /\ trace = SubSeq(StepsOfARun, 1, Len(trace))
       /\ pc = 27 =>
             /\ trace = StepsOfARun
             /\ png = [state |-> "image", image |-> Render(ax)]
             /\ ax.xscale = "log" /\ ax.yscale = "log"
             /\ ax.title = "Error per normal movement"
             /\ ax.xlabel = "Movement from normal change, per distance"
             /\ ax.ylabel = "Error per distance"
             /\ ax.legend.shown
       /\ status = "0" => pc = 27

\* C6: every run ends, and a run over four well-formed files whose savefig
\* does not fail executes the steps load x4, plot x4, log axes, title and
\* labels, legend, save in that order, each exactly once, leaves error.png
\* written over whatever was there, and exits with status zero.
C6_WellFormedRunIsOnePass == []OnePassSoFar /\ <>(status # "running")

C6_Witness ==
    /\ \A i \in 1..4 : fs[i].read /\ WellFormed(fs[i].file)
    /\ status = "0"
    /\ png0 = Stale
    /\ png.state = "image"
    /\ trace = StepsOfARun

\* C7: a failed load or a failed save ends the run: the failing statement is
\* the last one executed and was executed once, the process exits with a
\* non-zero status, and the traceback names the file the statement was
\* reading or writing; without a failure there is no non-zero status.
C7_FailureEndsRunNonZero ==
    /\ diag.exc # "none" <=> status = "1"
    /\ status = "1" =>
          /\ pc = diag.line
          /\ trace # <<>> /\ trace[Len(trace)] = diag.line
          /\ Cardinality({n \in 1..Len(trace) : trace[n] = diag.line}) = 1
          /\ diag.line = 26 => "error.png" \in {diag.stmtfile, diag.msgfile}
          /\ diag.line # 26 =>
                \E i \in 1..4 :
                   /\ fs[i].read /\ ~data[i].loaded
                   /\ fs[i].name \in InputFiles
                   /\ fs[i].name \in {diag.stmtfile, diag.msgfile}
                   /\ \A j \in 1..4 : (fs[j].read /\ j # i) => data[j].loaded

C7_Witness ==
    /\ status = "1"
    /\ diag.exc = "ValueError"
    /\ diag.line = 10
    /\ diag.msgfile = "" /\ diag.stmtfile = "ss-0.04.csv"

\* C8: a savefig that cannot write error.png fails, and the run never exits
\* zero with error.png partial, absent or stale: exit status zero means
\* error.png is the rendering of the figure.
C8_FailedSaveIsNeverSuccess ==
    /\ status = "0" => png = [state |-> "image", image |-> Render(ax)]
    /\ (Ran(26) /\ png.state # "image") =>
          /\ status = "1"
          /\ diag.line = 26
          /\ diag.exc \in {"PermissionError", "OSError"}
    /\ png.state = "partial" => status = "1"

C8_Witness ==
    /\ Ran(26)
    /\ diag.exc = "PermissionError"
    /\ png.state = "absent"
    /\ status = "1"

\* C9: from the load of a well-formed file on, to the end of the run, its
\* record has a normal_mvmt column and an error column of the same length,
\* the file's data-row count, and the r-th entries of the two are the two
\* values of the file's r-th data row.
C9_RecordIsTheFilesRows ==
    \A i \in 1..4 : (fs[i].read /\ WellFormed(fs[i].file)) =>
        /\ data[i].loaded
        /\ LET x == Column(data[i], "normal_mvmt")
               y == Column(data[i], "error")
               n == Len(DataRows(fs[i].file))
           IN  /\ Len(x) = n
               /\ Len(y) = n
               /\ \A r \in 1..n : <<x[r], y[r]>> = PointOf(fs[i].file, r)

C9_Witness ==
    /\ \E i \in 1..4 :
          /\ fs[i].read /\ WellFormed(fs[i].file)
          /\ Len(DataRows(fs[i].file)) = 2
          /\ PointOf(fs[i].file, 1) # PointOf(fs[i].file, 2)
    /\ status = "0"

\* C10: a zero or negative value in a well-formed file fails no statement;
\* in the saved image each series holds exactly its file's points whose two
\* values are both positive, in row order: the others are dropped.
C10_NonPositivePointsAreDropped ==
    (\A i \in 1..4 : fs[i].read => WellFormed(fs[i].file)) =>
       /\ diag.line \in {0, 26}
       /\ \A i \in 1..4 : fs[i].read => data[i].loaded
       /\ png.state = "image" =>
             \A k \in 1..4 :
                png.image.series[k].points =
                   SelectSeq(PointsOf(ReadOf(k).file),
                             LAMBDA p : Positive(p[1]) /\ Positive(p[2]))

C10_Witness ==
    /\ \A i \in 1..4 : fs[i].read /\ WellFormed(fs[i].file)
    /\ status = "0"
    /\ \E k \in 1..4 :
          /\ Len(PointsOf(ReadOf(k).file)) = 2
          /\ ~Positive(PointOf(ReadOf(k).file, 1)[2])
          /\ png.image.series[k].points = <<PointOf(ReadOf(k).file, 2)>>

====
